---- MODULE Spec2Model ----
(***************************************************************************)
(* A model of nuuid (src/src/lib.rs): the 16-byte Uuid value, its          *)
(* variant/version bit fields, the mixed-endian conversion, the string     *)
(* codec (to_str/to_urn/from_str) and the generators.                      *)
(*                                                                         *)
(* A Uuid is a sequence of 16 bytes; source index k is model index k+1.    *)
(* A string is the sequence of its UTF-8 bytes.  u32/u64 values are        *)
(* sequences of 16-bit limbs, most significant first, so that no model     *)
(* integer exceeds 2^31.  The crate is modelled with the features          *)
(* `experimental_uuid` and `getrandom` enabled.                            *)
(***************************************************************************)
EXTENDS Integers, Sequences, FiniteSets, TLC

VARIABLES self, text, gen, rng, wrapper, last, op, arg, ret

vars == <<self, text, gen, rng, wrapper, last, op, arg, ret>>

(***************************************************************************)
(* Bounds of the model.                                                    *)
(***************************************************************************)
\* number of byte values 0x00, 0x11, .. 0xFF, 0x17, .. written into inputs
NumByteVals == 16
\* characters appended to a rendering to make over-long parse inputs
MaxExtra == 2
\* calls of new_v4_rng on one Rng
MaxDraws == 3
\* bytes of the buffer a BytesWrapper is built over
MaxBufLen == 4
\* length of the strings handed to write_str
MaxStrLen == 3
\* length of the names hashed by new_v3 / new_v5
MaxNameLen == 2

(***************************************************************************)
(* Program constants.                                                      *)
(***************************************************************************)
UUID_STR_LENGTH == 36
UUID_URN_LENGTH == 45
UUID_BRACED_LENGTH == 38
UUID_SIMPLE_LENGTH == 32
\* "urn:uuid:"
UUID_URN == <<117, 114, 110, 58, 117, 117, 105, 100, 58>>

(***************************************************************************)
(* u8 arithmetic: & | << >> on bytes.                                      *)
(***************************************************************************)
Pow2(n) == <<1, 2, 4, 8, 16, 32, 64, 128, 256>>[n + 1]

Bit(b, n) == (b \div Pow2(n)) % 2

And8(a, b) ==
    Bit(a, 0) * Bit(b, 0) + 2 * Bit(a, 1) * Bit(b, 1)
        + 4 * Bit(a, 2) * Bit(b, 2) + 8 * Bit(a, 3) * Bit(b, 3)
        + 16 * Bit(a, 4) * Bit(b, 4) + 32 * Bit(a, 5) * Bit(b, 5)
        + 64 * Bit(a, 6) * Bit(b, 6) + 128 * Bit(a, 7) * Bit(b, 7)
\* a | b sets the bits of a and those of b, the common ones once
Or8(a, b) == a + b - And8(a, b)
Shl8(a, n) == (a * Pow2(n)) % 256
Shr8(a, n) == a \div Pow2(n)

\* self.0[k]
At(u, k) == u[k + 1]
\* self.0[k] = b
Put(u, k, b) == [u EXCEPT ![k + 1] = b]

(***************************************************************************)
(* enum Variant, enum Version (with experimental_uuid).                    *)
(***************************************************************************)
Variant == {"Ncs", "Rfc4122", "Microsoft", "Reserved"}

Version ==
    {"Nil", "Time", "Dce", "Md5", "Random", "Sha1",
     "Database", "UnixTime", "Vendor"}

\* `ver as u8`: the discriminants count up from Nil = 0
VersionAsU8(ver) ==
    CASE ver = "Nil" -> 0
      [] ver = "Time" -> 1
      [] ver = "Dce" -> 2
      [] ver = "Md5" -> 3
      [] ver = "Random" -> 4
      [] ver = "Sha1" -> 5
      [] ver = "Database" -> 6
      [] ver = "UnixTime" -> 7
      [] ver = "Vendor" -> 8

(***************************************************************************)
(* Bit-field codec.                                                        *)
(***************************************************************************)
\* set_version storing ver << 4 without keeping the low nibble of byte 6
set_version_clobber(u, ver) ==
    Put(u, 6, Shl8(VersionAsU8(ver), 4))

set_version(u, ver) ==
    Put(u, 6, Or8(And8(At(u, 6), 15), Shl8(VersionAsU8(ver), 4)))

\* set_variant keeping bit 5 of byte 8 in the Microsoft arm (mask 0x3F)
set_variant_wide_mask(u, ver) ==
    LET byte == At(u, 8)
    IN  Put(u, 8,
            CASE ver = "Ncs" -> And8(byte, 127)
              [] ver = "Rfc4122" -> Or8(And8(byte, 63), 128)
              [] ver = "Microsoft" -> Or8(And8(byte, 63), 192)
              [] ver = "Reserved" -> Or8(byte, 224))

set_variant(u, ver) ==
    LET byte == At(u, 8)
    IN  Put(u, 8,
            CASE ver = "Ncs" -> And8(byte, 127)
              [] ver = "Rfc4122" -> Or8(And8(byte, 63), 128)
              [] ver = "Microsoft" -> Or8(And8(byte, 31), 192)
              [] ver = "Reserved" -> Or8(byte, 224))

\* swap_endian reading the bytes it has already overwritten
swap_endian_no_temps(u) ==
    LET s1 == Put(u, 0, At(u, 3))
        s2 == Put(s1, 1, At(s1, 2))
        s3 == Put(s2, 2, At(s2, 1))
        s4 == Put(s3, 3, At(s3, 0))
        s5 == Put(s4, 4, At(s4, 5))
        s6 == Put(s5, 5, At(s5, 4))
        s7 == Put(s6, 6, At(s6, 7))
    IN  Put(s7, 7, At(s7, 6))

\* swap_endian without the swap of time_hi_and_version
swap_endian_two_fields(u) ==
    LET s1 == Put(Put(Put(Put(u, 0, At(u, 3)), 1, At(u, 2)), 2, At(u, 1)),
                  3, At(u, 0))
    IN  Put(Put(s1, 4, At(s1, 5)), 5, At(s1, 4))

swap_endian(u) ==
    LET s1 == Put(Put(Put(Put(u, 0, At(u, 3)), 1, At(u, 2)), 2, At(u, 1)),
                  3, At(u, 0))
        s2 == Put(Put(s1, 4, At(s1, 5)), 5, At(s1, 4))
        s3 == Put(Put(s2, 6, At(s2, 7)), 7, At(s2, 6))
    IN  s3

variant(u) ==
    LET byte == At(u, 8)
        b7 == And8(Shr8(byte, 7), 1) = 1
        b6 == And8(Shr8(byte, 6), 1) = 1
        b5 == And8(Shr8(byte, 5), 1) = 1
    IN  IF b7 /\ b6 /\ b5 THEN "Reserved"
        ELSE IF b7 /\ b6 /\ ~b5 THEN "Microsoft"
        ELSE IF b7 /\ ~b6 THEN "Rfc4122"
        ELSE "Ncs"

version(u) ==
    LET b7 == And8(Shr8(At(u, 6), 7), 1) = 1
        b6 == And8(Shr8(At(u, 6), 6), 1) = 1
        b5 == And8(Shr8(At(u, 6), 5), 1) = 1
        b4 == And8(Shr8(At(u, 6), 4), 1) = 1
    IN  IF ~b7 /\ ~b6 /\ ~b5 /\ ~b4 THEN "Nil"
        ELSE IF ~b7 /\ ~b6 /\ ~b5 /\ b4 THEN "Time"
        ELSE IF ~b7 /\ ~b6 /\ b5 /\ ~b4 THEN "Dce"
        ELSE IF ~b7 /\ ~b6 /\ b5 /\ b4 THEN "Md5"
        ELSE IF ~b7 /\ b6 /\ ~b5 /\ ~b4 THEN "Random"
        ELSE IF ~b7 /\ b6 /\ ~b5 /\ b4 THEN "Sha1"
        ELSE "Nil"

(***************************************************************************)
(* Byte model.                                                             *)
(***************************************************************************)
nil == [k \in 1..16 |-> 0]

max == [k \in 1..16 |-> 1]

from_bytes(bytes) == bytes

to_bytes(u) == u

from_bytes_me(bytes) == swap_endian(from_bytes(bytes))

to_bytes_me(u) == to_bytes(swap_endian(u))

\* uN::from_be_bytes: pairs of bytes become 16-bit limbs (an odd leading
\* byte is a limb of its own)
RECURSIVE FromBeBytes(_)
FromBeBytes(bs) ==
    IF Len(bs) = 0 THEN <<>>
    ELSE IF Len(bs) % 2 = 1 THEN <<bs[1]>> \o FromBeBytes(Tail(bs))
    ELSE <<bs[1] * 256 + bs[2]>> \o FromBeBytes(Tail(Tail(bs)))

\* uN::to_be_bytes of a value of n limbs: 2n bytes
RECURSIVE ToBeBytes(_)
ToBeBytes(limbs) ==
    IF Len(limbs) = 0 THEN <<>>
    ELSE <<limbs[1] \div 256, limbs[1] % 256>> \o ToBeBytes(Tail(limbs))

IsZero(limbs) == \A i \in 1..Len(limbs) : limbs[i] = 0

is_nil(u) == IsZero(FromBeBytes(u))

timestamp(u) ==
    FromBeBytes(<<And8(At(u, 6), 15), At(u, 7), At(u, 4), At(u, 5),
                  At(u, 0), At(u, 1), At(u, 2), At(u, 3)>>)

clock_sequence(u) ==
    FromBeBytes(<<And8(At(u, 8), 63), At(u, 9)>>)

(***************************************************************************)
(* BytesWrapper: fmt::Write over a caller's buffer.                        *)
(***************************************************************************)
BytesWrapper_new(bytes) == [bytes |-> bytes, offset |-> 0]

into_inner(w) == w.bytes

\* write_str copying to self.bytes[..s.len()] rather than from the offset on
write_str_at_start(w, s) ==
    IF Len(w.bytes) - w.offset < Len(s)
    THEN [ok |-> FALSE, w |-> w]
    ELSE [ok |-> TRUE,
          w |-> [bytes |-> [i \in 1..Len(w.bytes) |->
                               IF i <= Len(s) THEN s[i] ELSE w.bytes[i]],
                 offset |-> w.offset + Len(s)]]

\* Ok leaves the string written at offset; Err leaves the wrapper as it was
write_str(w, s) ==
    IF Len(w.bytes) - w.offset < Len(s)
    THEN [ok |-> FALSE, w |-> w]
    ELSE [ok |-> TRUE,
          w |-> [bytes |-> [i \in 1..Len(w.bytes) |->
                               IF i > w.offset /\ i <= w.offset + Len(s)
                               THEN s[i - w.offset]
                               ELSE w.bytes[i]],
                 offset |-> w.offset + Len(s)]]

\* write!: the pieces are written in order, stopping at the first Err
RECURSIVE write_fmt(_, _)
write_fmt(w, pieces) ==
    IF Len(pieces) = 0 THEN [ok |-> TRUE, w |-> w]
    ELSE LET r == write_str(w, Head(pieces))
         IN  IF r.ok THEN write_fmt(r.w, Tail(pieces)) ELSE r

(***************************************************************************)
(* Formatting.                                                             *)
(***************************************************************************)
Ok(v) == [tag |-> "Ok", val |-> v]
Err == [tag |-> "Err", val |-> <<>>]
Panic == [tag |-> "Panic", val |-> <<>>]

\* the digit d as a lower case hex character
LowerHexDigit(d) == IF d < 10 THEN 48 + d ELSE 87 + d

RECURSIVE StripZeros(_)
StripZeros(ds) ==
    IF Len(ds) > 1 /\ Head(ds) = 0 THEN StripZeros(Tail(ds)) ELSE ds

RECURSIVE LimbDigits(_)
LimbDigits(limbs) ==
    IF Len(limbs) = 0 THEN <<>>
    ELSE <<limbs[1] \div 4096, (limbs[1] \div 256) % 16,
           (limbs[1] \div 16) % 16, limbs[1] % 16>>
             \o LimbDigits(Tail(limbs))

\* "{:x}" in place of "{:0Wx}": the digits without the zero padding
FmtLowerHexUnpadded(limbs, width) ==
    LET ds == StripZeros(LimbDigits(limbs))
    IN  [i \in 1..Len(ds) |-> LowerHexDigit(ds[i])]

\* "{:0Wx}": the digits without leading zeros, zero-padded to width W
FmtLowerHex(limbs, width) ==
    LET ds == StripZeros(LimbDigits(limbs))
        pad == IF Len(ds) < width THEN width - Len(ds) ELSE 0
    IN  [i \in 1..pad |-> 48] \o [i \in 1..Len(ds) |-> LowerHexDigit(ds[i])]

\* u8::to_ascii_uppercase
ToAsciiUppercase(c) == IF c >= 97 /\ c <= 122 THEN c - 32 ELSE c

\* s[from..].make_ascii_uppercase()
make_ascii_uppercase(s, from) ==
    [i \in 1..Len(s) |-> IF i > from THEN ToAsciiUppercase(s[i]) ELSE s[i]]

\* the arguments of the write! of to_str, as the strings it writes
StrPieces(u) ==
    LET bytes == to_bytes(u)
        time_low == FromBeBytes(SubSeq(bytes, 1, 4))
        time_mid == FromBeBytes(SubSeq(bytes, 5, 6))
        time_hi_and_version == FromBeBytes(SubSeq(bytes, 7, 8))
        clock_seq_hi_and_reserved == FromBeBytes(SubSeq(bytes, 9, 9))
        clock_seq_low == FromBeBytes(SubSeq(bytes, 10, 10))
        node == FromBeBytes(<<0, 0>> \o SubSeq(bytes, 11, 16))
    IN  <<FmtLowerHex(time_low, 8), <<45>>,
          FmtLowerHex(time_mid, 4), <<45>>,
          FmtLowerHex(time_hi_and_version, 4), <<45>>,
          FmtLowerHex(clock_seq_hi_and_reserved, 2),
          FmtLowerHex(clock_seq_low, 2), <<45>>,
          FmtLowerHex(node, 12)>>

\* buf is the caller's [u8; 36]
to_str(u, buf) ==
    LET r == write_fmt(BytesWrapper_new(buf), StrPieces(u))
    IN  IF r.ok THEN Ok(into_inner(r.w)) ELSE Panic

\* buf is the caller's [u8; 45]
to_urn(u, buf) ==
    LET n == Len(UUID_URN)
        rest == SubSeq(buf, n + 1, Len(buf))
    IN  IF Len(buf) < n \/ Len(rest) # UUID_STR_LENGTH THEN Panic
        ELSE LET r == to_str(u, rest)
             IN  IF r.tag = "Ok" THEN Ok(UUID_URN \o r.val) ELSE r

to_str_upper(u, buf) ==
    LET s == to_str(u, buf)
    IN  IF s.tag = "Ok" THEN Ok(make_ascii_uppercase(s.val, 0)) ELSE s

to_urn_upper(u, buf) ==
    LET s == to_urn(u, buf)
    IN  IF s.tag = "Ok" THEN Ok(make_ascii_uppercase(s.val, Len(UUID_URN)))
        ELSE s

\* a conversion of the slice that never fails
TryIntoUnchecked(data, n) == Ok(data)

\* (&mut data[..]).try_into(): a slice becomes a &mut [u8; n] only when it
\* holds exactly n bytes
TryInto(data, n) == IF Len(data) = n THEN Ok(data) ELSE Err

\* uuid.to_str(data.try_into().unwrap()) on a caller's slice: the outcome
\* and the bytes of the slice when the call has returned or panicked
to_str_slice(u, data) ==
    LET a == TryInto(data, UUID_STR_LENGTH)
    IN  IF a.tag # "Ok" THEN [out |-> Panic, data |-> data]
        ELSE [out |-> to_str(u, a.val),
              data |-> write_fmt(BytesWrapper_new(a.val), StrPieces(u)).w.bytes]

\* uuid.to_urn(data.try_into().unwrap()) on a caller's slice: to_urn copies
\* the prefix, then hands the rest of the buffer to to_str
to_urn_slice(u, data) ==
    LET a == TryInto(data, UUID_URN_LENGTH)
        n == Len(UUID_URN)
    IN  IF a.tag # "Ok" \/ Len(data) < n THEN [out |-> Panic, data |-> data]
        ELSE LET r == to_str_slice(u, SubSeq(a.val, n + 1, Len(a.val)))
             IN  [out |-> IF r.out.tag = "Ok" THEN Ok(UUID_URN \o r.out.val)
                          ELSE Panic,
                  data |-> UUID_URN \o r.data]

\* fmt::LowerHex: "{:x}", and "{:#x}" when alternate
LowerHex_fmt(u, alternate) ==
    (IF alternate THEN UUID_URN ELSE <<>>)
        \o to_str(u, [i \in 1..UUID_STR_LENGTH |-> 0]).val

\* fmt::UpperHex: "{:X}", and "{:#X}" when alternate
UpperHex_fmt(u, alternate) ==
    (IF alternate THEN UUID_URN ELSE <<>>)
        \o to_str_upper(u, [i \in 1..UUID_STR_LENGTH |-> 0]).val

\* fmt::Display: write!(f, "{:X}", self)
Display_fmt(u) == UpperHex_fmt(u, FALSE)

(***************************************************************************)
(* Parsing.                                                                *)
(***************************************************************************)
\* str::is_ascii
is_ascii(s) == \A i \in 1..Len(s) : s[i] < 128

\* str::is_char_boundary: index 0, index len, or not a continuation byte
IsCharBoundary(s, i) ==
    \/ i = 0
    \/ i = Len(s)
    \/ i < Len(s) /\ ~(s[i + 1] >= 128 /\ s[i + 1] < 192)

\* &s[a..b]: panics when out of range or not on a character boundary
Slice(s, a, b) ==
    IF a <= b /\ b <= Len(s) /\ IsCharBoundary(s, a) /\ IsCharBoundary(s, b)
    THEN Ok(SubSeq(s, a + 1, b))
    ELSE Panic

\* to_digit knowing the lower case letters only
ToDigitLowerOnly(c) ==
    IF c >= 48 /\ c <= 57 THEN c - 48
    ELSE IF c >= 97 /\ c <= 102 THEN c - 87
    ELSE -1

\* char::to_digit(16), -1 for None
ToDigit(c) ==
    IF c >= 48 /\ c <= 57 THEN c - 48
    ELSE IF c >= 97 /\ c <= 102 THEN c - 87
    ELSE IF c >= 65 /\ c <= 70 THEN c - 55
    ELSE -1

\* limbs * 16 + carry, with the carry out of the top limb
RECURSIVE MulAdd(_, _)
MulAdd(limbs, carry) ==
    IF Len(limbs) = 0 THEN [val |-> <<>>, carry |-> carry]
    ELSE LET n == Len(limbs)
             v == limbs[n] * 16 + carry
             r == MulAdd(SubSeq(limbs, 1, n - 1), v \div 65536)
         IN  [val |-> Append(r.val, v % 65536), carry |-> r.carry]

RECURSIVE Digits(_, _)
Digits(digits, result) ==
    IF Len(digits) = 0 THEN Ok(result)
    ELSE LET d == ToDigit(Head(digits))
         IN  IF d < 0 THEN Err
             ELSE LET r == MulAdd(result, d)
                  IN  IF r.carry # 0 THEN Err
                      ELSE Digits(Tail(digits), r.val)

\* uN::from_str_radix(src, 16) for an unsigned type of nlimbs * 16 bits
from_str_radix(src, nlimbs) ==
    IF Len(src) = 0 THEN Err
    ELSE IF (src[1] = 43 \/ src[1] = 45) /\ Len(src) = 1 THEN Err
    ELSE Digits(IF src[1] = 43 THEN Tail(src) ELSE src,
                [i \in 1..nlimbs |-> 0])

\* from_str_radix(&s[a..b], 16).or(Err(ParseUuidError))?.to_be_bytes()
Group(s, a, b, nlimbs) ==
    LET sl == Slice(s, a, b)
    IN  IF sl.tag # "Ok" THEN sl
        ELSE LET r == from_str_radix(sl.val, nlimbs)
             IN  IF r.tag # "Ok" THEN r ELSE Ok(ToBeBytes(r.val))

\* the first test of from_str without is_ascii
RejectedByLength(s) ==
    Len(s) > UUID_URN_LENGTH \/ Len(s) < UUID_SIMPLE_LENGTH

\* the first test of from_str: the length range and is_ascii
Rejected(s) ==
    Len(s) > UUID_URN_LENGTH \/ Len(s) < UUID_SIMPLE_LENGTH \/ ~is_ascii(s)

\* s = match s.len() { .. }: the 36 or 32 characters of the groups
Strip(s) ==
    IF Len(s) = UUID_URN_LENGTH THEN Slice(s, Len(UUID_URN), Len(s))
    ELSE IF Len(s) = UUID_BRACED_LENGTH THEN Slice(s, 1, Len(s) - 1)
    ELSE IF Len(s) = UUID_STR_LENGTH THEN Ok(s)
    ELSE IF Len(s) = UUID_SIMPLE_LENGTH THEN Ok(s)
    ELSE Err

Indexes(offset) ==
    IF ~offset
    THEN <<<<0, 8>>, <<9, 13>>, <<14, 18>>, <<19, 23>>, <<24, 0>>>>
    ELSE <<<<0, 8>>, <<8, 12>>, <<12, 16>>, <<16, 20>>, <<20, 0>>>>

from_str(s0) ==
    IF Rejected(s0) THEN Err
    ELSE
    LET offset == Len(s0) = UUID_SIMPLE_LENGTH
        st == Strip(s0)
    IN  IF st.tag # "Ok" THEN st
        ELSE
        LET s == st.val
            indexes == Indexes(offset)
            g0 == Group(s, 0, indexes[1][2], 2)
            g1 == Group(s, indexes[2][1], indexes[2][2], 1)
            g2 == Group(s, indexes[3][1], indexes[3][2], 1)
            g3 == Group(s, indexes[4][1], indexes[4][2], 1)
            g4 == Group(s, indexes[5][1], Len(s), 4)
        IN  IF g0.tag # "Ok" THEN g0
            ELSE IF g1.tag # "Ok" THEN g1
            ELSE IF g2.tag # "Ok" THEN g2
            ELSE IF g3.tag # "Ok" THEN g3
            ELSE IF g4.tag # "Ok" THEN g4
            ELSE Ok(from_bytes(g0.val \o g1.val \o g2.val \o g3.val
                                   \o SubSeq(g4.val, 3, 8)))

parse(s) == from_str(s)

parse_me(s) ==
    LET r == from_str(s)
    IN  IF r.tag = "Ok" THEN Ok(swap_endian(r.val)) ELSE r

(***************************************************************************)
(* Generators.  Md5, Sha1 and ChaChaRng are external crates: a digest is   *)
(* a fixed function of the bytes fed to the hasher and the Rng is a        *)
(* keystream fixed by its seed, read at a position.                        *)
(***************************************************************************)
NAMESPACE_DNS ==
    <<107, 167, 184, 16, 157, 173, 17, 209, 128, 180, 0, 192, 79, 212, 48, 200>>
NAMESPACE_URL ==
    <<107, 167, 184, 17, 157, 173, 17, 209, 128, 180, 0, 192, 79, 212, 48, 200>>
NAMESPACE_OID ==
    <<107, 167, 184, 18, 157, 173, 17, 209, 128, 180, 0, 192, 79, 212, 48, 200>>
NAMESPACE_X500 ==
    <<107, 167, 184, 20, 157, 173, 17, 209, 128, 180, 0, 192, 79, 212, 48, 200>>

RECURSIVE Checksum(_, _)
Checksum(data, j) ==
    IF j > Len(data) THEN Len(data)
    ELSE (data[j] * (2 * j + 1) + Checksum(data, j + 1)) % 65536

\* hasher.finalize() after the updates whose concatenation is data
Md5Digest(data) ==
    LET c == Checksum(data, 1)
    IN  [i \in 1..16 |-> (c * (2 * i + 1) + 7 * i) % 256]

Sha1Digest(data) ==
    LET c == Checksum(data, 1)
    IN  [i \in 1..20 |-> (c * (4 * i + 3) + 11 * i + 5) % 256]

Rng_from_seed(seed) == [seed |-> seed, pos |-> 0]

\* byte i of the keystream of a seed
Keystream(seed, i) == (seed[(i % 32) + 1] + 101 * (i \div 32)) % 256

\* rng.fill_bytes(dest): the next Len(dest) bytes of the keystream
fill_bytes(r, n) ==
    [rng |-> [r EXCEPT !.pos = @ + n],
     dest |-> [i \in 1..n |-> Keystream(r.seed, r.pos + i - 1)]]

\* new_v4_rng filling the bytes twice, keeping the second draw
new_v4_rng_refill(r) ==
    LET f == fill_bytes(fill_bytes(r, 16).rng, 16)
    IN  [uuid |-> set_version(set_variant(f.dest, "Rfc4122"), "Random"),
         rng |-> f.rng]

\* the returned Uuid and the Rng it leaves behind
new_v4_rng(r) ==
    LET f == fill_bytes(r, 16)
    IN  [uuid |-> set_version(set_variant(f.dest, "Rfc4122"), "Random"),
         rng |-> f.rng]

new_v3(namespace, name) ==
    LET uuid == from_bytes(Md5Digest(to_bytes(namespace) \o name))
    IN  set_variant(set_version(uuid, "Md5"), "Rfc4122")

new_v5(namespace, name) ==
    LET uuid == from_bytes(SubSeq(Sha1Digest(to_bytes(namespace) \o name),
                                  1, 16))
    IN  set_variant(set_version(uuid, "Sha1"), "Rfc4122")

\* new_v1 taking time_mid from the top two bytes of the timestamp
new_v1_misplaced(ts, ctr, node) ==
    LET timestamp_ == ToBeBytes(ts)
        counter == ToBeBytes(<<ctr>>)
    IN  from_bytes(<<timestamp_[5], timestamp_[6], timestamp_[7],
                     timestamp_[8],
                     timestamp_[1], timestamp_[2],
                     Or8(And8(timestamp_[1], 15), Shl8(1, 4)),
                     timestamp_[2],
                     Or8(And8(counter[1], 63), 128),
                     counter[2],
                     node[1], node[2], node[3], node[4], node[5], node[6]>>)

\* timestamp is a u64 (4 limbs), counter a u16, node 6 bytes
new_v1(ts, ctr, node) ==
    LET timestamp_ == ToBeBytes(ts)
        counter == ToBeBytes(<<ctr>>)
    IN  from_bytes(<<timestamp_[5], timestamp_[6], timestamp_[7],
                     timestamp_[8],
                     timestamp_[3], timestamp_[4],
                     Or8(And8(timestamp_[1], 15), Shl8(1, 4)),
                     timestamp_[2],
                     Or8(And8(counter[1], 63), 128),
                     counter[2],
                     node[1], node[2], node[3], node[4], node[5], node[6]>>)

new_v8(bytes) ==
    set_version(set_variant(from_bytes(bytes), "Rfc4122"), "Vendor")

(***************************************************************************)
(* Inputs.                                                                 *)
(***************************************************************************)
\* tests::RAW, 662aa7c7-7598-4d56-8bcc-a72c30f998a2
RAW ==
    <<102, 42, 167, 199, 117, 152, 77, 86, 139, 204, 167, 44, 48, 249, 152, 162>>

\* b"I Am 16 bytes!!!"
IAm16 ==
    <<73, 32, 65, 109, 32, 49, 54, 32, 98, 121, 116, 101, 115, 33, 33, 33>>

Bases == {RAW, [k \in 1..16 |-> 0], [k \in 1..16 |-> 255]}

ByteVals ==
    {(k * 17 + 7 * (k \div 16)) % 256 : k \in 0..(NumByteVals - 1)}
        \cup {1, 10, 15, 16, 127, 128, 160, 254}

\* a base pattern with one byte rewritten
UuidInputs ==
    {[b EXCEPT ![i] = v] : b \in Bases, i \in 1..16, v \in ByteVals}

\* 138788330336896890 (tests::time), 0, 2^64-1, 2^60, 2^60-1, ...
TimestampInputs ==
    {<<493, 4928, 18611, 18298>>, <<0, 0, 0, 0>>,
     <<65535, 65535, 65535, 65535>>, <<4096, 0, 0, 0>>,
     <<4095, 65535, 65535, 65535>>, <<33059, 17767, 35243, 52719>>,
     <<61440, 0, 0, 1>>}

CounterInputs == {0, 8648, 16383, 16384, 32768 + 291, 65535}

\* b"world!"
NodeInputs == {<<119, 111, 114, 108, 100, 33>>, <<0, 255, 1, 254, 128, 127>>}

NamespaceInputs ==
    {NAMESPACE_DNS, NAMESPACE_URL, NAMESPACE_OID, NAMESPACE_X500}

NameInputs == UNION {[1..n -> {116, 67}] : n \in 0..MaxNameLen}

\* 32-byte seeds: a base pattern with one byte rewritten
SeedInputs ==
    {[i \in 1..32 |-> 0]}
        \cup {[[i \in 1..32 |-> (i * 29) % 256] EXCEPT ![j] = v] :
                  j \in {7, 9, 23, 25}, v \in ByteVals}

DefaultGen ==
    [timestamp |-> <<0, 0, 0, 0>>, counter |-> 0,
     node |-> <<0, 0, 0, 0, 0, 0>>,
     namespace |-> NAMESPACE_DNS, name |-> <<>>, bytes |-> nil]

DefaultRng == Rng_from_seed([i \in 1..32 |-> 0])

\* the hyphenated form without its hyphens, and in braces
Simple(s) == LET NotHyphen(c) == c # 45 IN SelectSeq(s, NotHyphen)
Braced(s) == <<123>> \o s \o <<125>>

Buf(n, fill) == [i \in 1..n |-> fill]

\* buffers a caller formats into: every length up to a little over the URN
\* length, zeroed or holding 0xFF
BufInputs == {Buf(n, fill) : n \in 0..(UUID_URN_LENGTH + MaxExtra),
                             fill \in {0, 255}}

\* buffers a BytesWrapper is built over, and the strings written to it
WriteBufInputs == {Buf(n, fill) : n \in 0..MaxBufLen, fill \in {0, 32}}
WriteStrInputs == UNION {[1..n -> {45, 97}] : n \in 0..MaxStrLen}

\* no BytesWrapper in use
DefaultWrapper == BytesWrapper_new(<<>>)

\* no generator called yet
NoCall == [op |-> "none", ret |-> <<>>, pos |-> 0]

\* the four shapes of v, in both letter cases
Renderings(v) ==
    LET lo == to_str(v, Buf(36, 0)).val
        up == to_str_upper(v, Buf(36, 0)).val
    IN  {lo, up, to_urn(v, Buf(45, 0)).val, to_urn_upper(v, Buf(45, 0)).val,
         Simple(lo), Simple(up), Braced(lo), Braced(up)}

\* characters written over a rendering: around the digit ranges, signs,
\* delimiters, blank, NUL, DEL
EditChars == {43, 45, 47, 48, 58, 64, 70, 71, 96, 102, 103, 120, 123, 125,
              32, 0, 127}

Edits(s) == {[s EXCEPT ![i] = c] : i \in 1..Len(s), c \in EditChars}

\* U+00E9 (2 bytes) written over two characters, or over one
NonAscii(s) ==
    {[i \in 1..Len(s) |-> IF i = k THEN 195 ELSE IF i = k + 1 THEN 169
                          ELSE s[i]] : k \in 1..(Len(s) - 1)}
        \cup {SubSeq(s, 1, k - 1) \o <<195, 169>> \o SubSeq(s, k + 1, Len(s)) :
                  k \in 1..Len(s)}

Prefixes(s) == {SubSeq(s, 1, n) : n \in 0..Len(s)}

Padded(s) ==
    {s \o [i \in 1..k |-> 48] :
         k \in 1..(UUID_URN_LENGTH - UUID_SIMPLE_LENGTH + MaxExtra)}

\* the shapes whose damaged forms are parsed
Damaged(v) ==
    LET lo == to_str(v, Buf(36, 0)).val
    IN  {lo, to_str_upper(v, Buf(36, 0)).val, to_urn(v, Buf(45, 0)).val,
         Simple(lo), Braced(lo)}

\* strings a caller hands to parse: the renderings of v and, for the
\* test vector, their damaged forms
TextInputs(v) ==
    Renderings(v)
        \cup (IF v = RAW
              THEN UNION {Edits(s) \cup NonAscii(s) \cup Prefixes(s)
                              \cup Padded(s) : s \in Damaged(v)}
              ELSE {})

(***************************************************************************)
(* Operations.  Each call records its name, argument and return value.     *)
(***************************************************************************)
Call(o, a, r) == op' = o /\ arg' = a /\ ret' = r

FromBytes ==
    /\ Call("from_bytes", <<>>, from_bytes(self))
    /\ UNCHANGED <<self, text, gen, rng, wrapper, last>>

ToBytes ==
    /\ Call("to_bytes", <<>>, to_bytes(self))
    /\ UNCHANGED <<self, text, gen, rng, wrapper, last>>

FromBytesMe ==
    /\ Call("from_bytes_me", <<>>, from_bytes_me(self))
    /\ UNCHANGED <<self, text, gen, rng, wrapper, last>>

ToBytesMe ==
    /\ Call("to_bytes_me", <<>>, to_bytes_me(self))
    /\ UNCHANGED <<self, text, gen, rng, wrapper, last>>

SwapEndian ==
    /\ Call("swap_endian", <<>>, swap_endian(self))
    /\ UNCHANGED <<self, text, gen, rng, wrapper, last>>

SetVersion ==
    \E ver \in Version :
        /\ Call("set_version", ver, set_version(self, ver))
        /\ UNCHANGED <<self, text, gen, rng, wrapper, last>>

SetVariant ==
    \E ver \in Variant :
        /\ Call("set_variant", ver, set_variant(self, ver))
        /\ UNCHANGED <<self, text, gen, rng, wrapper, last>>

GetVersion ==
    /\ Call("version", <<>>, version(self))
    /\ UNCHANGED <<self, text, gen, rng, wrapper, last>>

GetVariant ==
    /\ Call("variant", <<>>, variant(self))
    /\ UNCHANGED <<self, text, gen, rng, wrapper, last>>

GetTimestamp ==
    /\ Call("timestamp", <<>>, timestamp(self))
    /\ UNCHANGED <<self, text, gen, rng, wrapper, last>>

GetClockSequence ==
    /\ Call("clock_sequence", <<>>, clock_sequence(self))
    /\ UNCHANGED <<self, text, gen, rng, wrapper, last>>

IsNil ==
    /\ Call("is_nil", <<>>, is_nil(self))
    /\ UNCHANGED <<self, text, gen, rng, wrapper, last>>

NilUuid ==
    /\ Call("nil", <<>>, nil)
    /\ UNCHANGED <<self, text, gen, rng, wrapper, last>>

MaxUuid ==
    /\ Call("max", <<>>, max)
    /\ UNCHANGED <<self, text, gen, rng, wrapper, last>>

\* the formatters write into the caller's buffer, here the 36 or 45 bytes
\* of text, and leave the string there
Format(o, r) ==
    /\ Call(o, text, r)
    /\ text' = IF r.tag = "Ok" THEN r.val ELSE text
    /\ UNCHANGED <<self, gen, rng, wrapper, last>>

ToStr ==
    /\ Len(text) = 36
    /\ Format("to_str", to_str(self, text))

ToUrn ==
    /\ Len(text) = 45
    /\ Format("to_urn", to_urn(self, text))

ToStrUpper ==
    /\ Len(text) = 36
    /\ Format("to_str_upper", to_str_upper(self, text))

ToUrnUpper ==
    /\ Len(text) = 45
    /\ Format("to_urn_upper", to_urn_upper(self, text))

\* the formatters called on a caller's slice of any length
FormatSlice(o, r) ==
    /\ Call(o, text, r.out)
    /\ text' = r.data
    /\ UNCHANGED <<self, gen, rng, wrapper, last>>

ToStrSlice == FormatSlice("to_str_slice", to_str_slice(self, text))

ToUrnSlice == FormatSlice("to_urn_slice", to_urn_slice(self, text))

LowerHex ==
    \E alternate \in BOOLEAN :
        /\ Call("LowerHex", alternate, LowerHex_fmt(self, alternate))
        /\ UNCHANGED <<self, text, gen, rng, wrapper, last>>

UpperHex ==
    \E alternate \in BOOLEAN :
        /\ Call("UpperHex", alternate, UpperHex_fmt(self, alternate))
        /\ UNCHANGED <<self, text, gen, rng, wrapper, last>>

Display ==
    /\ Call("Display", <<>>, Display_fmt(self))
    /\ UNCHANGED <<self, text, gen, rng, wrapper, last>>

\* one write_str on the wrapper, until into_inner has consumed it; text
\* collects the strings it accepted
WriteStr ==
    \E s \in WriteStrInputs :
        LET r == write_str(wrapper, s)
        IN  /\ op # "into_inner"
            /\ Call("write_str", [s |-> s, w |-> wrapper],
                    IF r.ok THEN Ok(<<>>) ELSE Err)
            /\ wrapper' = r.w
            /\ text' = IF r.ok THEN text \o s ELSE text
            /\ UNCHANGED <<self, gen, rng, last>>

IntoInner ==
    /\ op # "into_inner"
    /\ Call("into_inner", <<>>, into_inner(wrapper))
    /\ UNCHANGED <<self, text, gen, rng, wrapper, last>>

Parse ==
    /\ Call("parse", <<>>, parse(text))
    /\ UNCHANGED <<self, text, gen, rng, wrapper, last>>

ParseMe ==
    /\ Call("parse_me", <<>>, parse_me(text))
    /\ UNCHANGED <<self, text, gen, rng, wrapper, last>>

\* the first generator call of a behaviour is kept: its name, its result and
\* the position of the Rng at that moment
Remember(g, r) ==
    last' = IF last.op = "none" THEN [op |-> g, ret |-> r, pos |-> rng.pos]
            ELSE last

NewV1 ==
    /\ Call("new_v1", <<>>, new_v1(gen.timestamp, gen.counter, gen.node))
    /\ Remember("new_v1", new_v1(gen.timestamp, gen.counter, gen.node))
    /\ UNCHANGED <<self, text, gen, rng, wrapper>>

\* new_v3 hashing 16 bytes drawn from the Rng after the name
NewV3Salted ==
    /\ rng.pos < 16 * MaxDraws
    /\ LET f == fill_bytes(rng, 16)
           r == new_v3(gen.namespace, gen.name \o f.dest)
       IN  /\ Call("new_v3", <<>>, r)
           /\ Remember("new_v3", r)
           /\ rng' = f.rng
    /\ UNCHANGED <<self, text, gen, wrapper>>

NewV3 ==
    /\ Call("new_v3", <<>>, new_v3(gen.namespace, gen.name))
    /\ Remember("new_v3", new_v3(gen.namespace, gen.name))
    /\ UNCHANGED <<self, text, gen, rng, wrapper>>

NewV5 ==
    /\ Call("new_v5", <<>>, new_v5(gen.namespace, gen.name))
    /\ Remember("new_v5", new_v5(gen.namespace, gen.name))
    /\ UNCHANGED <<self, text, gen, rng, wrapper>>

NewV8 ==
    /\ Call("new_v8", <<>>, new_v8(gen.bytes))
    /\ Remember("new_v8", new_v8(gen.bytes))
    /\ UNCHANGED <<self, text, gen, rng, wrapper>>

NewV4Rng ==
    /\ rng.pos < 16 * MaxDraws
    /\ LET r == new_v4_rng(rng)
       IN  /\ Call("new_v4_rng", rng, r.uuid)
           /\ rng' = r.rng
    /\ UNCHANGED <<self, text, gen, wrapper, last>>

(***************************************************************************)
(* Spec: the byte model and the bit-field codec applied to a value.        *)
(***************************************************************************)
Init ==
    /\ self \in UuidInputs
    /\ text = <<>>
    /\ gen = DefaultGen
    /\ rng = DefaultRng
    /\ wrapper = DefaultWrapper
    /\ last = NoCall
    /\ op = "init"
    /\ arg = <<>>
    /\ ret = <<>>

Next ==
    \/ FromBytes
    \/ ToBytes
    \/ FromBytesMe
    \/ ToBytesMe
    \/ SwapEndian
    \/ SetVersion
    \/ SetVariant
    \/ GetVersion
    \/ GetVariant
    \/ GetTimestamp
    \/ GetClockSequence
    \/ IsNil
    \/ NilUuid
    \/ MaxUuid

Spec == Init /\ [][Next]_vars

(***************************************************************************)
(* SpecParse: the string codec and the mixed-endian entry points applied   *)
(* to a value and a caller's string.                                       *)
(***************************************************************************)
InitParse ==
    /\ self \in UuidInputs
    /\ text \in TextInputs(self)
    /\ gen = DefaultGen
    /\ rng = DefaultRng
    /\ wrapper = DefaultWrapper
    /\ last = NoCall
    /\ op = "init"
    /\ arg = <<>>
    /\ ret = <<>>

NextParse ==
    \/ Parse
    \/ ParseMe
    \/ SwapEndian
    \/ FromBytesMe
    \/ ToStr
    \/ ToUrn
    \/ ToStrUpper
    \/ ToUrnUpper

SpecParse == InitParse /\ [][NextParse]_vars

(***************************************************************************)
(* SpecGen: the generators applied to a caller's arguments and Rng.        *)
(***************************************************************************)
InitGen ==
    /\ self = nil
    /\ text = <<>>
    /\ wrapper = DefaultWrapper
    /\ last = NoCall
    /\ op = "init"
    /\ arg = <<>>
    /\ ret = <<>>
    /\ \/ /\ \E t \in TimestampInputs, c \in CounterInputs, n \in NodeInputs :
                gen = [DefaultGen EXCEPT !.timestamp = t, !.counter = c,
                                         !.node = n]
          /\ rng = DefaultRng
       \/ /\ \E ns \in NamespaceInputs, name \in NameInputs :
                gen = [DefaultGen EXCEPT !.namespace = ns, !.name = name]
          /\ rng = DefaultRng
       \/ /\ \E b \in UuidInputs \cup {IAm16} :
                gen = [DefaultGen EXCEPT !.bytes = b]
          /\ rng = DefaultRng
       \/ /\ gen = DefaultGen
          /\ \E seed \in SeedInputs : rng = Rng_from_seed(seed)

NextGen ==
    \/ NewV1
    \/ NewV3
    \/ NewV5
    \/ NewV8
    \/ NewV4Rng

SpecGen == InitGen /\ [][NextGen]_vars

(***************************************************************************)
(* SpecFmt: the formatters and the fmt traits applied to a value and a     *)
(* caller's buffer.                                                        *)
(***************************************************************************)
InitFmt ==
    /\ \/ self \in UuidInputs /\ text = Buf(36, 0)
       \/ /\ self \in {[RAW EXCEPT ![i] = v] : i \in 1..16, v \in ByteVals}
          /\ text = Buf(45, 255)
       \/ self \in Bases /\ text \in BufInputs
    /\ gen = DefaultGen
    /\ rng = DefaultRng
    /\ wrapper = DefaultWrapper
    /\ last = NoCall
    /\ op = "init"
    /\ arg = <<>>
    /\ ret = <<>>

NextFmt ==
    \/ ToStr
    \/ ToUrn
    \/ ToStrUpper
    \/ ToUrnUpper
    \/ ToStrSlice
    \/ ToUrnSlice
    \/ LowerHex
    \/ UpperHex
    \/ Display

SpecFmt == InitFmt /\ [][NextFmt]_vars

(***************************************************************************)
(* SpecWrite: write_str calls on a BytesWrapper over a caller's buffer.    *)
(***************************************************************************)
InitWrite ==
    /\ self = nil
    /\ text = <<>>
    /\ gen = DefaultGen
    /\ rng = DefaultRng
    /\ \E buf \in WriteBufInputs : wrapper = BytesWrapper_new(buf)
    /\ last = NoCall
    /\ op = "init"
    /\ arg = <<>>
    /\ ret = <<>>

NextWrite ==
    \/ WriteStr
    \/ IntoInner

SpecWrite == InitWrite /\ [][NextWrite]_vars

(***************************************************************************)
(* Properties.                                                             *)
(***************************************************************************)
IsHexDigit(c) ==
    \/ c >= 48 /\ c <= 57
    \/ c >= 97 /\ c <= 102
    \/ c >= 65 /\ c <= 70

ShapeLengths ==
    {UUID_SIMPLE_LENGTH, UUID_STR_LENGTH, UUID_BRACED_LENGTH, UUID_URN_LENGTH}

\* C1: parse of each of the four renderings of a value v (simple,
\* hyphenated, braced, URN), in lower and in upper case, is Ok with the
\* bytes of v.
C1_RoundTrip ==
    (op = "parse" /\ text \in Renderings(self))
        => (ret.tag = "Ok" /\ to_bytes(ret.val) = self)

\* an upper case URN written by to_urn_upper has been parsed back
C1_Witness ==
    /\ op = "parse"
    /\ self = RAW
    /\ text = to_urn_upper(self, Buf(45, 0)).val
    /\ \E i \in 1..Len(text) : text[i] >= 65 /\ text[i] <= 70
    /\ ret = Ok(self)

\* C2: every generator's result reports the version the generator claims
\* (new_v1 Time, new_v3 Md5, new_v4_rng Random, new_v5 Sha1, new_v8 Vendor)
\* and the variant Rfc4122.
C2_TagCorrectness ==
    /\ op = "new_v1" => (version(ret) = "Time" /\ variant(ret) = "Rfc4122")
    /\ op = "new_v3" => (version(ret) = "Md5" /\ variant(ret) = "Rfc4122")
    /\ op = "new_v4_rng"
           => (version(ret) = "Random" /\ variant(ret) = "Rfc4122")
    /\ op = "new_v5" => (version(ret) = "Sha1" /\ variant(ret) = "Rfc4122")
    /\ op = "new_v8" => (version(ret) = "Vendor" /\ variant(ret) = "Rfc4122")

\* the tag the claim gives each pattern of the high 4 bits of byte 6
VersionOfBits(n) ==
    CASE n = 0 -> "Nil"
      [] n = 1 -> "Time"
      [] n = 2 -> "Dce"
      [] n = 3 -> "Md5"
      [] n = 4 -> "Random"
      [] n = 5 -> "Sha1"
      [] n = 6 -> "Database"
      [] n = 7 -> "UnixTime"
      [] n = 8 -> "Vendor"
      [] OTHER -> "Nil"

\* C3: version() decodes the high 4 bits of byte 6 as 0 Nil, 1 Time, 2 Dce,
\* 3 Md5, 4 Random, 5 Sha1, 6 Database, 7 UnixTime, 8 Vendor, 9..15 Nil,
\* and version() of set_version(v, t) is t for every tag t.
C3_VersionDecode ==
    /\ op = "version" => ret = VersionOfBits(At(self, 6) \div 16)
    /\ op = "set_version" => version(ret) = arg

\* index ranges (from, to] of the five groups within the stripped input
GroupRanges(n) ==
    IF n = UUID_SIMPLE_LENGTH
    THEN {<<0, 8>>, <<8, 12>>, <<12, 16>>, <<16, 20>>, <<20, 32>>}
    ELSE {<<0, 8>>, <<9, 13>>, <<14, 18>>, <<19, 23>>, <<24, 36>>}

\* the input without the URN prefix or the first and last character
Body(s) ==
    IF Len(s) = UUID_URN_LENGTH THEN SubSeq(s, 10, 45)
    ELSE IF Len(s) = UUID_BRACED_LENGTH THEN SubSeq(s, 2, 37)
    ELSE s

NonHexInGroup(s) ==
    \E r \in GroupRanges(Len(Body(s))) :
        \E i \in (r[1] + 1)..r[2] : ~IsHexDigit(Body(s)[i])

\* C4: parse returns the error whenever one of the five hex groups holds a
\* character that is not a hex digit.
C4_NonHexRejected ==
    (op = "parse" /\ Len(text) \in ShapeLengths /\ NonHexInGroup(text))
        => ret = Err

IsHyphenatedShape(s) ==
    Len(s) = UUID_STR_LENGTH /\ \A i \in {9, 14, 19, 24} : s[i] = 45

IsBracedShape(s) ==
    /\ Len(s) = UUID_BRACED_LENGTH
    /\ s[1] = 123
    /\ s[Len(s)] = 125
    /\ IsHyphenatedShape(SubSeq(s, 2, Len(s) - 1))

IsUrnShape(s) ==
    /\ Len(s) = UUID_URN_LENGTH
    /\ SubSeq(s, 1, 9) = UUID_URN
    /\ IsHyphenatedShape(SubSeq(s, 10, Len(s)))

\* C5: parse returns Ok only for the four documented shapes: 32 characters,
\* 36 characters with '-' at indexes 8, 13, 18 and 23, that form within '{'
\* and '}', and that form after the prefix urn:uuid: (the digits of the
\* groups are the matter of C4).
C5_DocumentedShapes ==
    (op = "parse" /\ ret.tag = "Ok")
        => \/ Len(text) = UUID_SIMPLE_LENGTH
           \/ IsHyphenatedShape(text)
           \/ IsBracedShape(text)
           \/ IsUrnShape(text)

\* C6: parse ends with Ok or with the error, never a panic, and with the
\* error for every input whose length is not 32, 36, 38 or 45 or that holds
\* a non-ASCII byte.
C6_ParseTotal ==
    op = "parse"
        => /\ ret.tag \in {"Ok", "Err"}
           /\ (Len(text) \notin ShapeLengths
                   \/ \E i \in 1..Len(text) : text[i] >= 128)
                  => ret = Err

\* a 45-byte input with a two-byte character inside the URN prefix was
\* rejected
C6_Witness ==
    /\ op = "parse"
    /\ Len(text) = UUID_URN_LENGTH
    /\ text[8] = 195
    /\ text[9] = 169
    /\ ret = Err

\* C7: nil() is sixteen 0x00 bytes, is_nil(v) holds exactly when v is
\* nil(), and max() is sixteen 0xFF bytes.
C7_NilMax ==
    /\ op = "nil" => ret = [k \in 1..16 |-> 0]
    /\ op = "is_nil" => (ret <=> self = [k \in 1..16 |-> 0])
    /\ op = "max" => ret = [k \in 1..16 |-> 255]

\* C8: the mixed-endian conversion is its own inverse: swap_endian of
\* swap_endian(v) is v, from_bytes_me of to_bytes_me(v) is v, and
\* to_bytes_me of from_bytes_me(b) is b.
C8_EndianInvolution ==
    /\ op = "swap_endian" => swap_endian(ret) = self
    /\ op = "to_bytes_me" => from_bytes_me(ret) = self
    /\ op = "from_bytes_me" => to_bytes_me(ret) = self

\* the test vector went to mixed-endian bytes that differ from it
C8_Witness ==
    /\ op = "to_bytes_me"
    /\ self = RAW
    /\ ret # self
    /\ from_bytes_me(ret) = self

\* [b3,b2,b1,b0, b5,b4, b7,b6, b8..b15]
MixedEndian(b) ==
    <<b[4], b[3], b[2], b[1], b[6], b[5], b[8], b[7]>> \o SubSeq(b, 9, 16)

\* C9: swap_endian and from_bytes_me map [b0..b15] to
\* [b3,b2,b1,b0, b5,b4, b7,b6, b8..b15], and parse_me(s) fails exactly when
\* parse(s) fails and is otherwise that mapping of parse(s).
C9_MixedEndianLayout ==
    /\ op = "swap_endian" => ret = MixedEndian(self)
    /\ op = "from_bytes_me" => ret = MixedEndian(self)
    /\ op = "parse_me"
           => LET p == parse(text)
              IN  IF p.tag = "Ok"
                  THEN ret = Ok(MixedEndian(p.val))
                  ELSE ret.tag # "Ok"

\* parse_me of a string returned a value other than parse's
C9_Witness ==
    /\ op = "parse_me"
    /\ ret.tag = "Ok"
    /\ parse(text).tag = "Ok"
    /\ ret.val # parse(text).val
    /\ SubSeq(ret.val, 9, 16) = SubSeq(parse(text).val, 9, 16)

\* C10: new_v1(t, c, n) rejects nothing; its timestamp() is t mod 2^60, its
\* clock_sequence() is c mod 2^14 and its bytes 10..15 are n.
C10_TimePacking ==
    op = "new_v1"
        => /\ timestamp(ret) = [gen.timestamp EXCEPT ![1] = @ % 4096]
           /\ clock_sequence(ret) = <<gen.counter % 16384>>
           /\ SubSeq(ret, 11, 16) = gen.node

\* a timestamp above 2^60 and a counter above 2^14 were packed
C10_Witness ==
    /\ op = "new_v1"
    /\ gen.timestamp[1] >= 4096
    /\ gen.counter >= 16384
    /\ timestamp(ret) # gen.timestamp
    /\ timestamp(ret)[1] < 4096

\* C11: formatting into a caller's buffer shorter than the format needs (36
\* bytes for to_str, 45 for to_urn) fails, and the buffer then holds exactly
\* the bytes it held before the call.
C11_NoPartialWrite ==
    /\ (op = "to_str_slice" /\ Len(arg) < UUID_STR_LENGTH)
           => (ret.tag = "Panic" /\ text = arg)
    /\ (op = "to_urn_slice" /\ Len(arg) < UUID_URN_LENGTH)
           => (ret.tag = "Panic" /\ text = arg)

\* a buffer long enough for the URN prefix and part of the digits was refused
C11_Witness ==
    /\ op = "to_urn_slice"
    /\ Len(arg) > UUID_STR_LENGTH
    /\ Len(arg) < UUID_URN_LENGTH
    /\ arg[1] = 255
    /\ ret.tag = "Panic"

\* the two hex digits of each byte in order, '-' after digits 8, 12, 16, 20
Spelling(v) ==
    LET Hex == <<48, 49, 50, 51, 52, 53, 54, 55, 56, 57,
                 97, 98, 99, 100, 101, 102>>
        Hyphens(i) == Cardinality({h \in {9, 14, 19, 24} : h < i})
    IN  [i \in 1..36 |->
            IF i \in {9, 14, 19, 24} THEN 45
            ELSE LET d == i - Hyphens(i) - 1
                     b == v[(d \div 2) + 1]
                 IN  Hex[(IF d % 2 = 0 THEN b \div 16 ELSE b % 16) + 1]]

\* s with the hex digits a-f in upper case
UpperDigits(s) ==
    [i \in 1..Len(s) |-> IF s[i] >= 97 /\ s[i] <= 102 THEN s[i] - 32 ELSE s[i]]

\* C12: to_str is the 36-character lower-case spelling of the 16 bytes,
\* to_urn is "urn:uuid:" followed by it, the upper forms change only the
\* digits a-f, and Display is the to_str_upper string.
C12_Rendering ==
    /\ op = "to_str" => (ret = Ok(Spelling(self)) /\ Len(ret.val) = 36)
    /\ op = "to_urn"
           => (ret = Ok(UUID_URN \o Spelling(self)) /\ Len(ret.val) = 45)
    /\ op = "to_str_upper" => ret = Ok(UpperDigits(Spelling(self)))
    /\ op = "to_urn_upper"
           => ret = Ok(UUID_URN \o UpperDigits(Spelling(self)))
    /\ op = "Display"
           => /\ ret = UpperDigits(Spelling(self))
              /\ ret = to_str_upper(self, Buf(36, 0)).val
    /\ op \in {"to_str", "to_urn", "to_str_upper", "to_urn_upper"}
           => text = ret.val

\* an upper-case URN of a value whose first byte needs a padding zero
C12_Witness ==
    /\ op = "to_urn_upper"
    /\ ret.tag = "Ok"
    /\ At(self, 0) < 16
    /\ \E i \in 1..Len(ret.val) : ret.val[i] >= 65 /\ ret.val[i] <= 70

\* C13: new_v8(b) equals b in the low 4 bits of byte 6, the low 6 bits of
\* byte 8 and the 14 other bytes; the high 4 bits of byte 6 are the version
\* and the top 2 bits of byte 8 are 10.
C13_VendorFrame ==
    op = "new_v8"
        => /\ \A k \in 0..15 : k \notin {6, 8} => At(ret, k) = At(gen.bytes, k)
           /\ At(ret, 6) % 16 = At(gen.bytes, 6) % 16
           /\ At(ret, 8) % 64 = At(gen.bytes, 8) % 64
           /\ At(ret, 6) \div 16 = 8
           /\ At(ret, 8) \div 64 = 2

\* a payload whose bytes 6 and 8 had other high bits and non-zero low bits
C13_Witness ==
    /\ op = "new_v8"
    /\ At(gen.bytes, 6) \div 16 # 8
    /\ At(gen.bytes, 8) \div 64 # 2
    /\ At(gen.bytes, 6) % 16 # 0
    /\ At(gen.bytes, 8) % 64 # 0
    /\ ret # gen.bytes

DetGens == {"new_v1", "new_v3", "new_v5", "new_v8"}

PrefixBits(t) ==
    CASE t = "Ncs" -> 1
      [] t = "Rfc4122" -> 2
      [] t = "Microsoft" -> 3
      [] t = "Reserved" -> 3

\* bits 7-5 of byte 8 as a variant: 0xx, 10x, 110, 111
VariantOfBits(b) ==
    LET top == b \div 32
    IN  IF top < 4 THEN "Ncs"
        ELSE IF top < 6 THEN "Rfc4122"
        ELSE IF top = 6 THEN "Microsoft"
        ELSE "Reserved"

\* C15: set_variant(v, t) changes only the leading bits of byte 8 that name
\* t, is idempotent, and variant() then reports t; variant() decodes bits
\* 7-5 of byte 8.
C15_VariantStamp ==
    /\ op = "set_variant"
           => /\ \A k \in 0..15 : k # 8 => At(ret, k) = At(self, k)
              /\ At(ret, 8) % Pow2(8 - PrefixBits(arg))
                     = At(self, 8) % Pow2(8 - PrefixBits(arg))
              /\ set_variant(ret, arg) = ret
              /\ variant(ret) = arg
    /\ op = "variant" => ret = VariantOfBits(At(self, 8))

\* Microsoft stamped on a byte 8 whose bits 7-5 were 001 and low bits set
C15_Witness ==
    /\ op = "set_variant"
    /\ arg = "Microsoft"
    /\ At(self, 8) \div 32 = 1
    /\ At(self, 8) % 32 # 0
    /\ ret # self

\* C16: the call of new_v4_rng at stream position p = 16k returns bytes
\* [p, p+16) of the seed's stream with the high 4 bits of byte 6 set to 4 and
\* the top 2 bits of byte 8 set to 10, and leaves the Rng at p + 16 with its
\* seed; the result is a function of the seed and k alone.
C16_StreamPosition ==
    op = "new_v4_rng"
        => LET p == arg.pos
               raw == [i \in 1..16 |-> Keystream(arg.seed, p + i - 1)]
           IN  /\ p % 16 = 0
               /\ rng = [seed |-> arg.seed, pos |-> p + 16]
               /\ \A k \in 0..15 : k \notin {6, 8} => At(ret, k) = At(raw, k)
               /\ At(ret, 6) % 16 = At(raw, 6) % 16
               /\ At(ret, 8) % 64 = At(raw, 8) % 64
               /\ At(ret, 6) \div 16 = 4
               /\ At(ret, 8) \div 64 = 2
               /\ self = nil /\ text = <<>>

\* the third draw of a seeded Rng, its bytes 6 and 8 rewritten
C16_Witness ==
    /\ op = "new_v4_rng"
    /\ arg.pos = 32
    /\ arg.seed # DefaultRng.seed
    /\ At(ret, 6) # Keystream(arg.seed, 38)
    /\ At(ret, 8) # Keystream(arg.seed, 40)

\* C17: the offset of a BytesWrapper stays within its buffer; a write_str
\* of a string longer than the room left returns Err and changes nothing; any
\* other write_str puts the string at the offset, advances the offset by its
\* length and leaves the other bytes; the bytes before the offset are the
\* accepted strings in order.
C17_WrapperInvariant ==
    /\ wrapper.offset >= 0
    /\ wrapper.offset <= Len(wrapper.bytes)
    /\ SubSeq(wrapper.bytes, 1, wrapper.offset) = text
    /\ op = "write_str"
           => LET w == arg.w
                  s == arg.s
              IN  IF Len(s) > Len(w.bytes) - w.offset
                  THEN ret = Err /\ wrapper = w
                  ELSE /\ ret = Ok(<<>>)
                       /\ wrapper.offset = w.offset + Len(s)
                       /\ Len(wrapper.bytes) = Len(w.bytes)
                       /\ \A i \in 1..Len(w.bytes) :
                              wrapper.bytes[i]
                                  = IF i > w.offset /\ i <= w.offset + Len(s)
                                    THEN s[i - w.offset]
                                    ELSE w.bytes[i]

\* a string that would fit an empty buffer refused after earlier writes
C17_Witness ==
    /\ op = "write_str"
    /\ ret = Err
    /\ arg.w.offset > 0
    /\ Len(arg.s) > 0
    /\ Len(arg.s) <= Len(wrapper.bytes)
    /\ Len(text) = wrapper.offset

====
